---- MODULE Spec2Model ----
(***************************************************************************)
(* Charging simulator: the two negotiation engines of the repository.     *)
(*                                                                         *)
(*   estimateCharging        (App with ports / cable.maxW / cable.epr,     *)
(*                            six standards, src/unnamed/part_000)         *)
(*   computeNegotiatedPower  (App with optional maxA and device.maxW,      *)
(*                            seven standards, src/README.md)              *)
(*                                                                         *)
(* and, around computeNegotiatedPower, the charge-time estimator, the      *)
(* diagnostics and the preset / override state of its App.                 *)
(*                                                                         *)
(* Numbers are exact rationals <<numerator, denominator>>; an optional     *)
(* field (maxA?: number) is <<>> when undefined and <<v>> when set.        *)
(* The current and power of computeNegotiatedPower, a quotient multiplied  *)
(* back, are carried as IEEE-754 doubles as well (currentF64, powerF64).   *)
(***************************************************************************)
EXTENDS Integers, Sequences, FiniteSets, TLC

VARIABLES
    app,                \* which App is running: "estimate", "negotiate", "time" or "ui"
    adapterState,       \* part_000 App: the adapter handed to estimateCharging
    cableState,         \* part_000 App: the cable
    deviceState,        \* part_000 App: the device
    standardSelection,  \* part_000 App: "Auto" or a Standard
    simulation,         \* part_000 App: <<>> or <<SimulationResult>>
    adapter,            \* README App: the adapter handed to computeNegotiatedPower
    cable,              \* README App: the cable
    device,             \* README App: the device
    forcedStandard,     \* README App: "auto" or a Standard
    negotiation,        \* README App: <<>> or <<result of computeNegotiatedPower>>
    powerW,             \* README App: the power handed to estimateChargeTimeMinutes
    time20to80,         \* README App: <<>>, or <<t>> with t = <<>> (null) or <<minutes>>
    bottlenecks,        \* README App: <<>> or <<list of {part, reason}>>
    suggestions,        \* README App: <<>> or <<list of suggestions>>
    adapterIdx,         \* README App: index of the selected adapter preset
    cableIdx,           \* README App: index of the selected cable preset
    deviceIdx,          \* README App: index of the selected device preset
    showAdvanced,       \* README App: whether the advanced panel is open
    adapterCustom,      \* README App: Partial<AdapterSpec>, the overrides typed in
    cableCustom,        \* README App: Partial<CableSpec>
    deviceCustom,       \* README App: Partial<DeviceSpec>
    lastHandler         \* README App: the event handler that ran last, "none" before any

\* the variables of the part_000 App, of the README App's inputs and results, and of its
\* preset / override state
estimateVars == <<adapterState, cableState, deviceState, standardSelection, simulation>>
partVars == <<adapter, cable, device, forcedStandard>>
resultVars == <<negotiation, time20to80, bottlenecks, suggestions>>
uiVars == <<adapterIdx, cableIdx, deviceIdx, showAdvanced,
            adapterCustom, cableCustom, deviceCustom, lastHandler>>

vars == <<app, estimateVars, partVars, resultVars, powerW, uiVars>>

----------------------------------------------------------------------------
\* Exact arithmetic standing for the JavaScript numbers.

RECURSIVE Gcd(_, _)
Gcd(a, b) == IF b = 0 THEN a ELSE Gcd(b, a % b)

Abs(n) == IF n < 0 THEN -n ELSE n

\* The rational n/d in lowest terms, d > 0.
Rat(n, d) ==
    LET g == Gcd(Abs(n), Abs(d))
        s == IF d < 0 THEN -1 ELSE 1
    IN  <<(s * n) \div g, (s * d) \div g>>

Num(n) == <<n, 1>>

RLe(x, y) == x[1] * y[2] <= y[1] * x[2]
RLt(x, y) == x[1] * y[2] < y[1] * x[2]
RMul(x, y) == Rat(x[1] * y[1], x[2] * y[2])
RDiv(x, y) == Rat(x[1] * y[2], x[2] * y[1])
RSub(x, y) == Rat(x[1] * y[2] - y[1] * x[2], x[2] * y[2])

\* Math.min over a non-empty set of integers, and over a sequence of rationals.
MinOf(S) == CHOOSE m \in S : \A n \in S : m <= n

RMin2(x, y) == IF RLe(x, y) THEN x ELSE y

RECURSIVE RMin(_)
RMin(xs) == IF Len(xs) = 1 THEN xs[1] ELSE RMin2(xs[1], RMin(Tail(xs)))

\* x <= y + 1e-6, without multiplying by 10^6.
LeEps(x, y) ==
    LET d == RSub(x, y) IN d[1] <= 0 \/ d[1] <= d[2] \div 1000000

\* Number(x.toFixed(digits)): x rounded to a multiple of 10^-digits (half up).
RECURSIVE Pow10(_)
Pow10(k) == IF k = 0 THEN 1 ELSE 10 * Pow10(k - 1)

toFixed(x, digits) ==
    LET p == Pow10(digits)
    IN  Rat((2 * x[1] * p + x[2]) \div (2 * x[2]), p)

\* Math.round(x): the integer nearest to x, a half rounded up
MathRoundHalfUp(x) == (2 * x[1] + x[2]) \div (2 * x[2])

----------------------------------------------------------------------------
\* The same numbers as IEEE-754 doubles, for the places where the last bit of a
\* quotient or product decides: a positive double is 2^exp * mant, mant = <<1, d1, d2, d3,
\* d4>> read in base 2^13 (1 + d1/2^13 + ... + d4/2^52, 53 significant bits); rounding
\* is to nearest, ties to even.

F64Base == 8192

F64Zero == [exp |-> -2000, mant |-> <<0, 0, 0, 0, 0>>]

\* mant + 2^-52, renormalised when it reaches 2
F64Inc(x) ==
    LET m == x.mant
        c4 == (m[5] + 1) \div F64Base
        c3 == (m[4] + c4) \div F64Base
        c2 == (m[3] + c3) \div F64Base
        c1 == (m[2] + c2) \div F64Base
    IN  IF m[1] + c1 = 2
        THEN [exp |-> x.exp + 1, mant |-> <<1, 0, 0, 0, 0>>]
        ELSE [exp |-> x.exp,
              mant |-> <<1, (m[2] + c2) % F64Base, (m[3] + c3) % F64Base,
                         (m[4] + c4) % F64Base, (m[5] + 1) % F64Base>>]

\* round to nearest, ties to even: rest is what lies beyond the last digit, of half
F64Round(x, rest, half) ==
    IF rest > half \/ (rest = half /\ x.mant[5] % 2 = 1) THEN F64Inc(x) ELSE x

\* <<n', d', e>> with n/d = 2^e * n'/d' and 1 <= n'/d' < 2
RECURSIVE F64Normalise(_, _, _)
F64Normalise(n, d, e) ==
    IF n >= 2 * d THEN F64Normalise(n, 2 * d, e + 1)
    ELSE IF n < d THEN F64Normalise(2 * n, d, e - 1)
    ELSE <<n, d, e>>

\* n / d for non-negative integers n and d > 0
F64Div(n, d) ==
    IF n = 0 THEN F64Zero
    ELSE LET nd == F64Normalise(n, d, 0)
             dd == nd[2]
             r0 == nd[1] - dd
             d1 == (r0 * F64Base) \div dd
             r1 == (r0 * F64Base) % dd
             d2 == (r1 * F64Base) \div dd
             r2 == (r1 * F64Base) % dd
             d3 == (r2 * F64Base) \div dd
             r3 == (r2 * F64Base) % dd
             d4 == (r3 * F64Base) \div dd
             r4 == (r3 * F64Base) % dd
         IN  F64Round([exp |-> nd[3], mant |-> <<1, d1, d2, d3, d4>>], 2 * r4, dd)

F64FromInt(n) == F64Div(n, 1)

\* the largest s with 2^s <= n
RECURSIVE F64Log2(_)
F64Log2(n) == IF n < 2 THEN 0 ELSE 1 + F64Log2(n \div 2)

RECURSIVE F64Pow2(_)
F64Pow2(s) == IF s = 0 THEN 1 ELSE 2 * F64Pow2(s - 1)

\* x * v for a double x and a positive integer v
F64MulInt(x, v) ==
    IF x = F64Zero \/ v = 0 THEN F64Zero
    ELSE LET m == x.mant
             t4 == m[5] * v
             t3 == m[4] * v + t4 \div F64Base
             t2 == m[3] * v + t3 \div F64Base
             t1 == m[2] * v + t2 \div F64Base
             p0 == m[1] * v + t1 \div F64Base
             p1 == t1 % F64Base
             p2 == t2 % F64Base
             p3 == t3 % F64Base
             p4 == t4 % F64Base
             s == F64Log2(p0)
             S == F64Pow2(s)
             q1 == ((p0 % S) * F64Base + p1) \div S
             q2 == ((p1 % S) * F64Base + p2) \div S
             q3 == ((p2 % S) * F64Base + p3) \div S
             q4 == ((p3 % S) * F64Base + p4) \div S
         IN  F64Round([exp |-> x.exp + s, mant |-> <<1, q1, q2, q3, q4>>], 2 * (p4 % S), S)

\* x <= y and x < y on doubles
F64Lt(x, y) ==
    \/ x.exp < y.exp
    \/ /\ x.exp = y.exp
       /\ \E i \in 1..5 : x.mant[i] < y.mant[i] /\ \A j \in 1..(i - 1) : x.mant[j] = y.mant[j]

F64Le(x, y) == x = y \/ F64Lt(x, y)

F64Min2(x, y) == IF F64Le(x, y) THEN x ELSE y

----------------------------------------------------------------------------
\* Optional fields.

Undefined == <<>>

----------------------------------------------------------------------------
\* The App around estimateCharging (six standards, adapter ports, cable.epr).

\* the priority list with base PD ranked above PPS
STANDARD_PRIORITY_PdFirst ==
    <<"USB PD 3.1 EPR", "USB PD 3.0", "USB PD 3.0 PPS", "QC 3.0", "Apple 2.4A", "USB BC 1.2">>

STANDARD_PRIORITY ==
    <<"USB PD 3.1 EPR", "USB PD 3.0 PPS", "USB PD 3.0", "QC 3.0", "Apple 2.4A", "USB BC 1.2">>

Standard == {STANDARD_PRIORITY[i] : i \in DOMAIN STANDARD_PRIORITY}

StandardSelection == {"Auto"} \cup Standard

AdapterPort == {"USB-C", "USB-A"}

CableConnector ==
    {"USB-C to USB-C", "USB-A to USB-C", "USB-C to Lightning", "USB-A to Lightning"}

DeviceConnector == {"USB-C", "Lightning"}

\* connector.includes(part) on the four connector strings.
includes(connector, part) ==
    CASE part = "USB-C" -> connector \in {"USB-C to USB-C", "USB-A to USB-C", "USB-C to Lightning"}
      [] part = "USB-A" -> connector \in {"USB-A to USB-C", "USB-A to Lightning"}
      [] part = "Lightning" -> connector \in {"USB-C to Lightning", "USB-A to Lightning"}

getConnectorCompatibility(a, c, d) ==
    LET requiresUsbC == includes(c.connector, "USB-C")
        requiresUsbA == includes(c.connector, "USB-A")
        r1 == IF requiresUsbC /\ "USB-C" \notin a.ports THEN <<"adapterLacksUsbC">> ELSE <<>>
        r2 == IF requiresUsbA /\ "USB-A" \notin a.ports THEN <<"adapterLacksUsbA">> ELSE <<>>
        r3 == IF d.connector = "USB-C" /\ ~includes(c.connector, "USB-C")
              THEN <<"deviceNeedsUsbC">> ELSE <<>>
        r4 == IF d.connector = "Lightning" /\ ~includes(c.connector, "Lightning")
              THEN <<"deviceNeedsLightning">> ELSE <<>>
        reasons == r1 \o r2 \o r3 \o r4
    IN  [compatible |-> Len(reasons) = 0, reasons |-> reasons]

\* isStandardAllowedOnUsbA that lets base Power Delivery through as well
isStandardAllowedOnUsbAWithPd(standard) ==
    standard = "Apple 2.4A" \/ standard = "USB BC 1.2" \/ standard = "QC 3.0"
    \/ standard = "USB PD 3.0"

isStandardAllowedOnUsbA(standard) ==
    standard = "Apple 2.4A" \/ standard = "USB BC 1.2" \/ standard = "QC 3.0"

\* isStandardCompatible that returns at the first group of rules that fails
isStandardCompatibleShortCircuit(standard, a, c, d) ==
    LET connectorCompatibility == getConnectorCompatibility(a, c, d)
        r1 == IF standard \notin a.standards THEN <<"adapterNoStandard">> ELSE <<>>
        r2 == IF standard \notin d.standards THEN <<"deviceNoStandard">> ELSE <<>>
        r3 == IF includes(c.connector, "USB-A") /\ ~isStandardAllowedOnUsbA(standard)
              THEN <<"usbACableNoPd">> ELSE <<>>
        r4 == IF standard = "USB PD 3.1 EPR" /\ ~c.epr THEN <<"eprRequiresCable">> ELSE <<>>
        r5 == IF standard = "USB PD 3.1 EPR" /\ MinOf({a.maxV, d.maxV}) < 28
              THEN <<"eprRequiresVoltage">> ELSE <<>>
        reasons == IF ~connectorCompatibility.compatible THEN connectorCompatibility.reasons
                   ELSE IF Len(r1 \o r2) > 0 THEN r1 \o r2
                   ELSE r3 \o r4 \o r5
    IN  [compatible |-> Len(reasons) = 0, reasons |-> reasons]

\* isStandardCompatible whose EPR voltage rule looks at the adapter alone
isStandardCompatibleAdapterVoltage(standard, a, c, d) ==
    LET connectorCompatibility == getConnectorCompatibility(a, c, d)
        r0 == IF ~connectorCompatibility.compatible THEN connectorCompatibility.reasons ELSE <<>>
        r1 == IF standard \notin a.standards THEN <<"adapterNoStandard">> ELSE <<>>
        r2 == IF standard \notin d.standards THEN <<"deviceNoStandard">> ELSE <<>>
        r3 == IF includes(c.connector, "USB-A") /\ ~isStandardAllowedOnUsbA(standard)
              THEN <<"usbACableNoPd">> ELSE <<>>
        r4 == IF standard = "USB PD 3.1 EPR" /\ ~c.epr THEN <<"eprRequiresCable">> ELSE <<>>
        r5 == IF standard = "USB PD 3.1 EPR" /\ a.maxV < 28
              THEN <<"eprRequiresVoltage">> ELSE <<>>
        reasons == r0 \o r1 \o r2 \o r3 \o r4 \o r5
    IN  [compatible |-> Len(reasons) = 0, reasons |-> reasons]

\* isStandardCompatible that reports only the first rule that fails
isStandardCompatibleFirstReason(standard, a, c, d) ==
    LET connectorCompatibility == getConnectorCompatibility(a, c, d)
        r0 == IF ~connectorCompatibility.compatible THEN connectorCompatibility.reasons ELSE <<>>
        r1 == IF standard \notin a.standards THEN <<"adapterNoStandard">> ELSE <<>>
        r2 == IF standard \notin d.standards THEN <<"deviceNoStandard">> ELSE <<>>
        r3 == IF includes(c.connector, "USB-A") /\ ~isStandardAllowedOnUsbA(standard)
              THEN <<"usbACableNoPd">> ELSE <<>>
        r4 == IF standard = "USB PD 3.1 EPR" /\ ~c.epr THEN <<"eprRequiresCable">> ELSE <<>>
        r5 == IF standard = "USB PD 3.1 EPR" /\ MinOf({a.maxV, d.maxV}) < 28
              THEN <<"eprRequiresVoltage">> ELSE <<>>
        all == r0 \o r1 \o r2 \o r3 \o r4 \o r5
        reasons == IF Len(all) > 0 THEN <<all[1]>> ELSE <<>>
    IN  [compatible |-> Len(reasons) = 0, reasons |-> reasons]

isStandardCompatible(standard, a, c, d) ==
    LET connectorCompatibility == getConnectorCompatibility(a, c, d)
        r0 == IF ~connectorCompatibility.compatible THEN connectorCompatibility.reasons ELSE <<>>
        r1 == IF standard \notin a.standards THEN <<"adapterNoStandard">> ELSE <<>>
        r2 == IF standard \notin d.standards THEN <<"deviceNoStandard">> ELSE <<>>
        usesUsbA == includes(c.connector, "USB-A")
        r3 == IF usesUsbA /\ ~isStandardAllowedOnUsbA(standard) THEN <<"usbACableNoPd">> ELSE <<>>
        r4 == IF standard = "USB PD 3.1 EPR" /\ ~c.epr THEN <<"eprRequiresCable">> ELSE <<>>
        r5 == IF standard = "USB PD 3.1 EPR" /\ MinOf({a.maxV, d.maxV}) < 28
              THEN <<"eprRequiresVoltage">> ELSE <<>>
        reasons == r0 \o r1 \o r2 \o r3 \o r4 \o r5
    IN  [compatible |-> Len(reasons) = 0, reasons |-> reasons]

\* STANDARD_PRIORITY.filter(listed by adapter and device)
candidateStandards(a, d) ==
    SelectSeq(STANDARD_PRIORITY, LAMBDA s : s \in a.standards /\ s \in d.standards)

\* autoStandard that yields no standard when nothing is compatible
autoStandardOrNull(a, c, d) ==
    LET found == SelectSeq(candidateStandards(a, d),
                           LAMBDA s : isStandardCompatible(s, a, c, d).compatible)
    IN  IF Len(found) > 0 THEN found[1] ELSE "null"

\* autoStandard that takes the first listed candidate without asking isStandardCompatible
autoStandardFirstListed(a, c, d) ==
    IF Len(candidateStandards(a, d)) > 0 THEN candidateStandards(a, d)[1] ELSE "USB BC 1.2"

\* candidateStandards.find(compatible) ?? "USB BC 1.2"
autoStandard(a, c, d) ==
    LET found == SelectSeq(candidateStandards(a, d),
                           LAMBDA s : isStandardCompatible(s, a, c, d).compatible)
    IN  IF Len(found) > 0 THEN found[1] ELSE "USB BC 1.2"

\* A message descriptor {key, values}: values is <<>> or the one interpolated number.
Msg(key) == [key |-> key, values |-> <<>>]
MsgW(key, maxW) == [key |-> key, values |-> <<maxW>>]

\* const usesUsbA = cable.connector.includes("USB-A")
usesUsbA(c) == includes(c.connector, "USB-A")

\* clampVoltage that forgets the USB-A to Lightning cables
clampVoltageUsbCOnly(c) == IF c.connector = "USB-A to USB-C" THEN {5} ELSE {}

\* const clampVoltage = usesUsbA ? 5 : Infinity, as the set of finite ceilings it adds
clampVoltage(c) == IF usesUsbA(c) THEN {5} ELSE {}

deviceMaxW(d) == d.maxV * d.maxA

effectiveV(a, c, d) == MinOf({a.maxV, c.maxV, d.maxV} \cup clampVoltage(c))

effectiveA(a, c, d) == MinOf({a.maxA, c.maxA, d.maxA})

\* effectiveW that leaves out the wattage ratings
effectiveWVoltsTimesAmps(a, c, d) == effectiveV(a, c, d) * effectiveA(a, c, d)

effectiveW(a, c, d) ==
    MinOf({a.maxW, c.maxW, deviceMaxW(d), effectiveV(a, c, d) * effectiveA(a, c, d)})

\* selectedStandard that replaces an incompatible explicit selection by the Auto choice
selectedStandardCorrected(a, c, d, selection) ==
    IF selection = "Auto" \/ ~isStandardCompatible(selection, a, c, d).compatible
    THEN autoStandard(a, c, d) ELSE selection

\* const standard = selection === "Auto" ? autoStandard : selection
selectedStandard(a, c, d, selection) ==
    IF selection = "Auto" THEN autoStandard(a, c, d) ELSE selection

estimateCharging(a, c, d, selection) ==
    LET standard == selectedStandard(a, c, d, selection)
        compatibility == isStandardCompatible(standard, a, c, d)
        effV == effectiveV(a, c, d)
        effA == effectiveA(a, c, d)
        effW == effectiveW(a, c, d)
        \* effectiveW >= device.recommendedW * 0.95
        meetsRecommended == 100 * effW >= 95 * d.recommendedW
        energyNeededWh == Rat(d.batteryWh * 6, 10)
        taperFactor == IF effW >= d.recommendedW THEN Rat(115, 100)
                       ELSE IF effW < 15 THEN Rat(14, 10) ELSE Rat(13, 10)
        estimatedTimeHours == IF effW > 0
                              THEN RMul(RDiv(energyNeededWh, Num(effW)), taperFactor)
                              ELSE Num(0)
        b1 == IF a.maxW < d.recommendedW THEN <<MsgW("bottleneckAdapterCaps", a.maxW)>> ELSE <<>>
        b2 == IF c.maxW < d.recommendedW THEN <<MsgW("bottleneckCableCaps", c.maxW)>> ELSE <<>>
        b3 == IF deviceMaxW(d) < d.recommendedW THEN <<Msg("bottleneckDeviceCurve")>> ELSE <<>>
        b4 == IF standard = "USB PD 3.1 EPR" /\ ~c.epr THEN <<Msg("bottleneckEprCable")>> ELSE <<>>
        b5 == IF usesUsbA(c) /\ ~isStandardAllowedOnUsbA(standard)
              THEN <<Msg("bottleneckUsbAPd")>> ELSE <<>>
        n1 == IF a.maxW < d.recommendedW THEN <<Msg("actionUpgradeAdapter")>> ELSE <<>>
        n2 == IF c.maxW < d.recommendedW THEN <<Msg("actionHigherRatedCable")>> ELSE <<>>
        n3 == IF standard = "USB PD 3.1 EPR" /\ ~c.epr THEN <<Msg("actionUseEprCable")>> ELSE <<>>
        n4 == IF usesUsbA(c) THEN <<Msg("actionSwitchUsbC")>> ELSE <<>>
        n5 == IF ~meetsRecommended THEN <<Msg("actionLowerExpectations")>> ELSE <<>>
    IN  [ standard |-> standard,
          estimatedW |-> toFixed(Num(effW), 1),
          estimatedV |-> toFixed(Num(effV), 1),
          estimatedA |-> toFixed(Num(effA), 2),
          meetsRecommended |-> meetsRecommended,
          estimatedTimeHours |-> toFixed(estimatedTimeHours, 2),
          bottlenecks |-> b1 \o b2 \o b3 \o b4 \o b5,
          nextActions |-> n1 \o n2 \o n3 \o n4 \o n5,
          incompatibilities |-> compatibility.reasons,
          \* the locals the three returned numbers are rounded from
          effectiveV |-> effV,
          effectiveA |-> effA,
          effectiveW |-> effW ]

----------------------------------------------------------------------------
\* The App around computeNegotiatedPower (seven standards, optional maxA).

NEG_STANDARD_PRIORITY ==
    <<"USB PD 3.1 EPR", "USB PD 3.0/2.0", "USB PD PPS", "Quick Charge 4+",
      "Quick Charge 3.0", "Apple 2.4A", "USB BC 1.2">>

ALL_STANDARDS == {NEG_STANDARD_PRIORITY[i] : i \in DOMAIN NEG_STANDARD_PRIORITY}

\* a.filter((x) => b.includes(x)), on sets
intersect(a, b) == {x \in a : x \in b}

\* Math.max(min, Math.min(max, n))
clamp(n, min, max) == IF (IF max < n THEN max ELSE n) < min THEN min ELSE (IF max < n THEN max ELSE n)

\* chooseBestStandard with the other engine's fallback in place of null
chooseBestStandardOrBc(options) ==
    LET found == SelectSeq(NEG_STANDARD_PRIORITY, LAMBDA s : s \in options)
    IN  IF Len(found) > 0 THEN found[1] ELSE "USB BC 1.2"

\* the first standard of the priority list that options includes, or null
chooseBestStandard(options) ==
    LET found == SelectSeq(NEG_STANDARD_PRIORITY, LAMBDA s : s \in options)
    IN  IF Len(found) > 0 THEN found[1] ELSE "null"

\* available.filter(...): the shared standards the cable lets through
viable(a, c, d) ==
    { s \in intersect(a.standards, d.standards) :
        /\ ~( s \in {"USB PD 3.1 EPR", "USB PD 3.0/2.0", "USB PD PPS"}
              /\ c.connector \in {"USB-A to USB-C", "USB-A to Lightning"} )
        /\ ~( s = "USB PD 3.1 EPR" /\ (c.maxV < 48 \/ c.maxA < 5) )
        /\ ~( s = "USB PD PPS" /\ c.connector # "USB-C to USB-C" ) }

\* targetVoltage that takes the quick-charge voltage as 12 V without the component limits
targetVoltageQcFixed(chosen, a, c, d) ==
    LET m == MinOf({a.maxV, d.maxV, c.maxV})
    IN  CASE chosen = "USB PD 3.1 EPR" -> clamp(m, 20, 48)
          [] chosen = "USB PD 3.0/2.0" -> clamp(m, 5, 20)
          [] chosen = "USB PD PPS" -> clamp(m, 5, 21)
          [] chosen \in {"Quick Charge 4+", "Quick Charge 3.0"} -> 12
          [] OTHER -> 5

\* let targetV = 5; if (chosen === ...) targetV = ...
targetVoltage(chosen, a, c, d) ==
    LET m == MinOf({a.maxV, d.maxV, c.maxV})
    IN  CASE chosen = "USB PD 3.1 EPR" -> clamp(m, 20, 48)
          [] chosen = "USB PD 3.0/2.0" -> clamp(m, 5, 20)
          [] chosen = "USB PD PPS" -> clamp(m, 5, 21)
          [] chosen \in {"Quick Charge 4+", "Quick Charge 3.0"} -> MinOf({12, m})
          [] OTHER -> 5

\* const chosen = forcedStandard ?? chooseBestStandard(viable); forced is a Standard or "null"
chosenStandard(a, c, d, forced) ==
    IF forced # "null" THEN forced ELSE chooseBestStandard(viable(a, c, d))

\* adapterMaxA that derives a missing limit at 5 V whatever the target voltage
adapterMaxAAt5V(a, targetV) == IF a.maxA = Undefined THEN Rat(a.maxW, 5) ELSE Num(a.maxA[1])

\* adapter.maxA ?? adapter.maxW / targetV, and the same for the device
adapterMaxA(a, targetV) == IF a.maxA = Undefined THEN Rat(a.maxW, targetV) ELSE Num(a.maxA[1])
deviceMaxA(d, targetV) == IF d.maxA = Undefined THEN Rat(d.maxW, targetV) ELSE Num(d.maxA[1])

\* const current = Math.min(adapterMaxA, deviceMaxA, cableMaxA)
negotiatedCurrent(a, c, d, targetV) ==
    RMin(<<adapterMaxA(a, targetV), deviceMaxA(d, targetV), Num(c.maxA)>>)

\* negotiatedPower that leaves out the device's wattage
negotiatedPowerNoDevice(a, d, current, targetV) ==
    RMin(<<RMul(current, Num(targetV)), Num(a.maxW)>>)

\* let power = current * targetV; power = Math.min(power, adapter.maxW, device.maxW)
negotiatedPower(a, d, current, targetV) ==
    RMin(<<RMul(current, Num(targetV)), Num(a.maxW), Num(d.maxW)>>)

\* adapterMaxA, deviceMaxA, current and power as the doubles the code computes
adapterMaxAF64(a, targetV) ==
    IF a.maxA = Undefined THEN F64Div(a.maxW, targetV) ELSE F64FromInt(a.maxA[1])

deviceMaxAF64(d, targetV) ==
    IF d.maxA = Undefined THEN F64Div(d.maxW, targetV) ELSE F64FromInt(d.maxA[1])

negotiatedCurrentF64(a, c, d, targetV) ==
    F64Min2(adapterMaxAF64(a, targetV),
            F64Min2(deviceMaxAF64(d, targetV), F64FromInt(c.maxA)))

negotiatedPowerF64(a, d, currentF64, targetV) ==
    F64Min2(F64MulInt(currentF64, targetV),
            F64Min2(F64FromInt(a.maxW), F64FromInt(d.maxW)))

\* the early return of computeNegotiatedPower when nothing is chosen
noStandardResult ==
    [ standard |-> "null", voltage |-> 5, current |-> Num(0), power |-> Num(0),
      currentF64 |-> F64Zero, powerF64 |-> F64Zero,
      limits |-> [adapter |-> TRUE, cable |-> TRUE, device |-> TRUE],
      reason |-> "no common standard" ]

computeNegotiatedPower(a, c, d, forced) ==
    LET chosen == chosenStandard(a, c, d, forced)
        targetV == targetVoltage(chosen, a, c, d)
        current == negotiatedCurrent(a, c, d, targetV)
        power == negotiatedPower(a, d, current, targetV)
        currentF64 == negotiatedCurrentF64(a, c, d, targetV)
    IN  IF chosen = "null"
        THEN noStandardResult
        ELSE [ standard |-> chosen, voltage |-> targetV, current |-> current, power |-> power,
               \* current and power with the rounding of the two floating-point operations
               currentF64 |-> currentF64,
               powerF64 |-> negotiatedPowerF64(a, d, currentF64, targetV),
               limits |->
                 [ adapter |-> \/ LeEps(Num(a.maxW), power)
                               \/ LeEps(adapterMaxA(a, targetV), current)
                               \/ a.maxV < targetV,
                   cable |-> LeEps(Num(c.maxA), current) \/ c.maxV < targetV,
                   device |-> \/ LeEps(Num(d.maxW), power)
                              \/ LeEps(deviceMaxA(d, targetV), current)
                              \/ d.maxV < targetV ],
               reason |-> "null" ]

\* formatTime(hours, t): the message shown for estimatedTimeHours
formatTime(hours) ==
    IF RLe(hours, Num(0)) THEN Msg("notAvailable")
    ELSE LET totalMinutes == MathRoundHalfUp(RMul(hours, Num(60)))
         IN  [ key |-> "timeFormat", hrs |-> totalMinutes \div 60, mins |-> totalMinutes % 60 ]

----------------------------------------------------------------------------
\* The charge-time estimator of the README App. batteryWh, batteryMAh and nominalV are
\* optional rationals: <<>> when undefined, <<x>> when set.

\* if (x): undefined and 0 are both falsy
truthy(x) == x # Undefined /\ x[1][1] # 0

\* let capacityWh = 0; if (device.batteryWh) ... else if (device.batteryMAh &&
\* device.nominalV) ... else return null
capacityWh(d) ==
    IF truthy(d.batteryWh) THEN d.batteryWh[1]
    ELSE IF truthy(d.batteryMAh) /\ truthy(d.nominalV)
         THEN RDiv(RMul(d.batteryMAh[1], d.nominalV[1]), Num(1000))
         ELSE "null"

\* eff that is 0.85 for every capacity
effFlat(capacity) == Rat(17, 20)

\* const eff = capacityWh < 25 ? 0.75 : 0.85
eff(capacity) == IF RLt(capacity, Num(25)) THEN Rat(3, 4) ELSE Rat(17, 20)

\* const effectiveW = Math.min(powerW, device.maxW) * eff
chargeEffectiveW(p, d, capacity) == RMul(RMin2(p, Num(d.maxW)), eff(capacity))

\* the result is null (<<>>), or <<the whole number of minutes of the 20 % to 80 % slice>>
estimateChargeTimeMinutes(p, d) ==
    LET capacity == capacityWh(d)
        sliceWh == RMul(capacity, Rat(3, 5))
        effectiveWatts == chargeEffectiveW(p, d, capacity)
        hours == RDiv(sliceWh, effectiveWatts)
    IN  IF capacity = "null" THEN <<>>
        ELSE IF RLe(effectiveWatts, Rat(1, 10)) THEN <<>>
        ELSE <<MathRoundHalfUp(RMul(hours, Num(60)))>>

----------------------------------------------------------------------------
\* The diagnostics of the README App: the bottlenecks and suggestions memos. A part is
\* "adapter", "cable" or "device"; a reason is named after the text it shows.

Bottleneck(part, reason) == [part |-> part, reason |-> reason]

\* if (cond) list.push(item)
pushIf(cond, item) == IF cond THEN <<item>> ELSE <<>>

\* const adapterA = adapter.maxA ?? adapter.maxW / negotiation.voltage, and deviceA
adapterA(a, n) == IF a.maxA = Undefined THEN Rat(a.maxW, n.voltage) ELSE Num(a.maxA[1])
deviceA(d, n) == IF d.maxA = Undefined THEN Rat(d.maxW, n.voltage) ELSE Num(d.maxA[1])

\* the three entries pushed when negotiation.standard is null, without the cable's
noStandardBottlenecksNoCable ==
    << Bottleneck("adapter", "no matching standard"),
       Bottleneck("device", "no matching standard") >>

\* the three entries pushed when negotiation.standard is null
noStandardBottlenecks ==
    << Bottleneck("adapter", "no matching standard"),
       Bottleneck("cable", "no matching standard"),
       Bottleneck("device", "no matching standard") >>

\* the two checks of the negotiated power, left out
powerBottlenecksNone(n, a, d) == <<>>

\* if (negotiation.power + 1e-6 >= adapter.maxW) ...; if (... >= device.maxW) ...
powerBottlenecks(n, a, d) ==
    pushIf(LeEps(Num(a.maxW), n.power), Bottleneck("adapter", "output limit"))
    \o pushIf(LeEps(Num(d.maxW), n.power), Bottleneck("device", "input limit"))

\* the bottlenecks memo
bottlenecksMemo(n, a, c, d) ==
    IF n.standard = "null"
    THEN noStandardBottlenecks
    ELSE pushIf(a.maxV < n.voltage, Bottleneck("adapter", "voltage limit"))
         \o pushIf(c.maxV < n.voltage, Bottleneck("cable", "voltage limit"))
         \o pushIf(d.maxV < n.voltage, Bottleneck("device", "voltage limit"))
         \o pushIf(LeEps(adapterA(a, n), n.current), Bottleneck("adapter", "current limit"))
         \o pushIf(LeEps(Num(c.maxA), n.current), Bottleneck("cable", "current limit"))
         \o pushIf(LeEps(deviceA(d, n), n.current), Bottleneck("device", "current limit"))
         \o powerBottlenecks(n, a, d)
         \o pushIf(/\ "USB PD PPS" \in d.standards
                   /\ n.standard # "USB PD PPS"
                   /\ "USB PD PPS" \in a.standards,
                   Bottleneck("device", "PPS may be more efficient"))

\* the suggestions memo
suggestionsMemo(n, a, c, d) ==
    IF n.standard = "null"
    THEN <<"change to a combination with a common standard">>
    ELSE pushIf(RLt(n.power, Num(d.recommendedW - 1)), "below the recommended wattage")
         \o pushIf(n.voltage >= 20 /\ c.maxA < 5, "change to a 5 A eMarker cable")
         \o pushIf(a.maxW < d.recommendedW, "consider a higher-output adapter")
         \o pushIf(/\ "USB PD 3.1 EPR" \in d.standards
                   /\ "USB PD 3.1 EPR" \notin a.standards,
                   "change to an EPR adapter")
         \o pushIf(n.standard \in {"Apple 2.4A", "USB BC 1.2"}, "USB-A is capped, use USB-C PD")

----------------------------------------------------------------------------
\* The inputs explored: the first NumVolts (NumAmps, NumWatts) of the levels.

NumVolts == 2
NumAmps == 2
NumWatts == 2

VoltLevels == <<5, 48, 9, 28, 20, 12, 3>>
AmpLevels == <<2, 5, 0, 3, 1>>
WattLevels == <<20, 60, 0, 140, 12>>

Volts == {VoltLevels[i] : i \in 1..NumVolts}
Amps == {AmpLevels[i] : i \in 1..NumAmps}
Watts == {WattLevels[i] : i \in 1..NumWatts}

\* estimateCharging's inputs

AdapterStandardSets ==
    { {"USB PD 3.1 EPR", "USB PD 3.0 PPS", "USB PD 3.0", "QC 3.0", "USB BC 1.2"},
      {"Apple 2.4A"} }

DeviceStandardSets ==
    { {"USB PD 3.1 EPR", "USB PD 3.0 PPS", "USB PD 3.0", "QC 3.0"},
      {"USB PD 3.0", "USB BC 1.2"} }

\* the parts of the second sanity test: a 140 W / 28 V / 5 A EPR adapter, a 5 A / 48 V
\* EPR cable and a 28 V / 5 A EPR device
apple140 ==
    [ maxW |-> 140, maxV |-> 28, maxA |-> 5,
      standards |-> {"USB PD 3.1 EPR", "USB PD 3.0"}, ports |-> {"USB-C"} ]

eprCable ==
    [ maxW |-> 240, maxV |-> 48, maxA |-> 5, connector |-> "USB-C to USB-C", epr |-> TRUE ]

macbook ==
    [ recommendedW |-> 140, maxV |-> 28, maxA |-> 5,
      standards |-> {"USB PD 3.1 EPR", "USB PD 3.0"}, connector |-> "USB-C",
      batteryWh |-> 100 ]

\* the same device with its battery field set to 1 Wh
macbook1Wh == [macbook EXCEPT !.batteryWh = 1]

AdapterSpec ==
    [ maxW : Watts, maxV : Volts, maxA : Amps,
      standards : AdapterStandardSets, ports : (SUBSET AdapterPort) \ {{}} ]
    \cup {apple140}

\* a cable is rated for 20 W or for 240 W, and for 5 V or for 48 V
CableVolts == {VoltLevels[1], VoltLevels[2]}

CableSpec ==
    [ maxW : {20, 240}, maxV : CableVolts, maxA : Amps, connector : CableConnector,
      epr : BOOLEAN ]
    \cup {eprCable}

DeviceSpec ==
    [ recommendedW : {30}, maxV : Volts, maxA : {3}, standards : DeviceStandardSets,
      connector : DeviceConnector, batteryWh : {50} ]
    \cup {macbook, macbook1Wh}

\* computeNegotiatedPower's inputs

OptionalAmps == {Undefined} \cup {<<v>> : v \in Amps}

NegAdapterStandardSets ==
    { {"USB PD 3.1 EPR", "USB PD 3.0/2.0", "USB PD PPS", "Quick Charge 3.0"},
      {"Quick Charge 4+", "Apple 2.4A", "USB BC 1.2"} }

NegDeviceStandardSets ==
    { {"USB PD 3.1 EPR", "USB PD PPS", "USB PD 3.0/2.0", "Quick Charge 4+", "Apple 2.4A"},
      {"Quick Charge 3.0", "USB BC 1.2"} }

\* the presets of the second sanity test: "Apple 140W USB-C Power Adapter",
\* "USB-C to USB-C 5A / 240W (EPR)" and "MacBook Pro 16 (M3 Max)"
a140 ==
    [ maxW |-> 140, maxV |-> 28, maxA |-> Undefined,
      standards |-> {"USB PD 3.1 EPR", "USB PD 3.0/2.0"} ]

cEPR == [ connector |-> "USB-C to USB-C", maxA |-> 5, maxV |-> 48 ]

mbp16 ==
    [ recommendedW |-> 140, maxW |-> 140, maxV |-> 28, maxA |-> <<5>>,
      standards |-> {"USB PD 3.1 EPR", "USB PD 3.0/2.0"},
      batteryWh |-> <<Num(100)>>, batteryMAh |-> Undefined, nominalV |-> Undefined ]

NegAdapterSpec ==
    [ maxW : Watts, maxV : Volts, maxA : OptionalAmps, standards : NegAdapterStandardSets ]
    \cup {a140}

NegCableSpec ==
    [ connector : CableConnector, maxA : Amps, maxV : CableVolts ]
    \cup {cEPR}

\* the devices recommend 27 W and carry the battery of the "iPad Pro 11" preset
NegDeviceSpec ==
    [ recommendedW : {27}, maxW : Watts, maxV : Volts, maxA : OptionalAmps,
      standards : NegDeviceStandardSets,
      batteryWh : {<<Num(31)>>}, batteryMAh : {Undefined}, nominalV : {Undefined} ]
    \cup {mbp16}

\* estimateChargeTimeMinutes' inputs: the first NumPowers powers and the first
\* NumCapacities battery capacities, in Wh and in mAh
NumPowers == 4
NumCapacities == 3

PowerLevels == <<Num(60), Num(20), Rat(1, 10), Num(0), Num(1), Num(140)>>
BatteryWhLevels == <<Undefined, <<Num(0)>>, <<Num(31)>>, <<Num(16)>>, <<Num(100)>>>>
BatteryMAhLevels == <<Undefined, <<Num(100)>>, <<Num(3274)>>, <<Num(0)>>, <<Num(5050)>>>>

Powers == {PowerLevels[i] : i \in 1..NumPowers}

\* a device with every combination of battery fields; nominalV is 3.85 V where given
TimeDeviceSpec ==
    [ recommendedW : {27}, maxW : Watts, maxV : {9}, maxA : {<<3>>},
      standards : {{"USB PD 3.0/2.0"}},
      batteryWh : {BatteryWhLevels[i] : i \in 1..NumCapacities},
      batteryMAh : {BatteryMAhLevels[i] : i \in 1..NumCapacities},
      nominalV : {Undefined, <<Rat(77, 20)>>} ]

\* the value of the other App's variables
None == [none |-> TRUE]

\* the README App has rendered nothing, has no power at hand, has no preset state
NoResults == negotiation = <<>> /\ time20to80 = <<>> /\ bottlenecks = <<>> /\ suggestions = <<>>
NoPower == powerW = None
NoUi ==
    /\ adapterIdx = 0 /\ cableIdx = 0 /\ deviceIdx = 0
    /\ showAdvanced = FALSE
    /\ adapterCustom = None /\ cableCustom = None /\ deviceCustom = None
    /\ lastHandler = "none"
NoEstimate ==
    /\ adapterState = None /\ cableState = None /\ deviceState = None
    /\ standardSelection = "Auto"
    /\ simulation = <<>>

----------------------------------------------------------------------------
\* The App around estimateCharging.

InitEstimate ==
    /\ app = "estimate"
    /\ adapterState \in AdapterSpec
    /\ cableState \in CableSpec
    /\ deviceState \in DeviceSpec
    /\ standardSelection \in StandardSelection
    /\ simulation = <<>>
    /\ adapter = None /\ cable = None /\ device = None
    /\ forcedStandard = "auto"
    /\ NoResults /\ NoPower /\ NoUi

\* useMemo(() => estimateCharging(adapterState, cableState, deviceState, standardSelection))
Estimate ==
    /\ app = "estimate"
    /\ simulation = <<>>
    /\ simulation' = <<estimateCharging(adapterState, cableState, deviceState, standardSelection)>>
    /\ UNCHANGED <<app, adapterState, cableState, deviceState, standardSelection,
                   partVars, resultVars, powerW, uiVars>>

SpecEstimate == InitEstimate /\ [][Estimate]_vars

----------------------------------------------------------------------------
\* The App around computeNegotiatedPower.

InitNegotiate ==
    /\ app = "negotiate"
    /\ adapter \in NegAdapterSpec
    /\ cable \in NegCableSpec
    /\ device \in NegDeviceSpec
    /\ forcedStandard \in {"auto"} \cup ALL_STANDARDS
    /\ NoResults /\ NoPower /\ NoUi /\ NoEstimate

\* useMemo(() => computeNegotiatedPower(adapter, cable, device,
\*                                      forcedStandard === "auto" ? null : forcedStandard))
negotiationMemo(a, c, d, forced) ==
    computeNegotiatedPower(a, c, d, IF forced = "auto" THEN "null" ELSE forced)

\* useMemo(() => estimateChargeTimeMinutes(negotiation.power, device))
time20to80Memo(n, d) == estimateChargeTimeMinutes(n.power, d)

\* one render: the four memos, each from the ones before it
Render(a, c, d, forced) ==
    \E n \in {negotiationMemo(a, c, d, forced)} :
        /\ negotiation' = <<n>>
        /\ time20to80' = <<time20to80Memo(n, d)>>
        /\ bottlenecks' = <<bottlenecksMemo(n, a, c, d)>>
        /\ suggestions' = <<suggestionsMemo(n, a, c, d)>>

Negotiate ==
    /\ app = "negotiate"
    /\ negotiation = <<>>
    /\ Render(adapter, cable, device, forcedStandard)
    /\ UNCHANGED <<app, partVars, estimateVars, powerW, uiVars>>

SpecNegotiate == InitNegotiate /\ [][Negotiate]_vars

----------------------------------------------------------------------------
\* estimateChargeTimeMinutes on its own: any power, any battery.

InitChargeTime ==
    /\ app = "time"
    /\ powerW \in Powers
    /\ device \in TimeDeviceSpec
    /\ adapter = None /\ cable = None
    /\ forcedStandard = "auto"
    /\ NoResults /\ NoUi /\ NoEstimate

ChargeTime ==
    /\ app = "time"
    /\ time20to80 = <<>>
    /\ time20to80' = <<estimateChargeTimeMinutes(powerW, device)>>
    /\ UNCHANGED <<app, partVars, estimateVars, powerW, uiVars,
                   negotiation, bottlenecks, suggestions>>

SpecChargeTime == InitChargeTime /\ [][ChargeTime]_vars

----------------------------------------------------------------------------
\* The README App itself: preset indices, override records, the forced standard and the
\* handlers that set them. Every handler is followed by the render of its new state.

\* the presets: ADAPTERS[0..2], CABLES[0..2] and DEVICES[0], [1], [3] of the catalogs
\* (sequences count from 1: the preset of index i is the element i + 1)
ADAPTERS ==
    << [ name |-> "Apple 20W USB-C Power Adapter", maxW |-> 20, maxV |-> 9,
         maxA |-> Undefined, standards |-> {"USB PD 3.0/2.0", "Apple 2.4A"} ],
       [ name |-> "Apple 35W Dual USB-C Adapter", maxW |-> 35, maxV |-> 20,
         maxA |-> Undefined, standards |-> {"USB PD 3.0/2.0"} ],
       [ name |-> "Anker 737 (GaNPrime) 120W", maxW |-> 120, maxV |-> 20,
         maxA |-> Undefined,
         standards |-> {"USB PD 3.0/2.0", "USB PD PPS", "Quick Charge 4+"} ] >>

CABLES ==
    << [ name |-> "USB-C to USB-C 3A / 60W (no eMarker)", connector |-> "USB-C to USB-C",
         maxA |-> 3, maxV |-> 20, eMarked |-> FALSE ],
       [ name |-> "USB-C to USB-C 5A / 100W (eMarked)", connector |-> "USB-C to USB-C",
         maxA |-> 5, maxV |-> 20, eMarked |-> TRUE ],
       [ name |-> "USB-C to USB-C 5A / 240W (EPR)", connector |-> "USB-C to USB-C",
         maxA |-> 5, maxV |-> 48, eMarked |-> TRUE ] >>

DEVICES ==
    << [ name |-> "iPhone 15 Pro", recommendedW |-> 27, maxW |-> 30, maxV |-> 9,
         maxA |-> <<3>>, batteryWh |-> Undefined, batteryMAh |-> <<Num(3274)>>,
         nominalV |-> <<Rat(77, 20)>>,
         standards |-> {"USB PD 3.0/2.0", "USB PD PPS", "Apple 2.4A", "USB BC 1.2"} ],
       [ name |-> "iPad Pro 11 (M4)", recommendedW |-> 35, maxW |-> 45, maxV |-> 15,
         maxA |-> <<3>>, batteryWh |-> <<Num(31)>>, batteryMAh |-> Undefined,
         nominalV |-> Undefined, standards |-> {"USB PD 3.0/2.0", "USB PD PPS"} ],
       [ name |-> "MacBook Pro 14 (M3)", recommendedW |-> 70, maxW |-> 96, maxV |-> 20,
         maxA |-> <<5>>, batteryWh |-> <<Num(70)>>, batteryMAh |-> Undefined,
         nominalV |-> Undefined, standards |-> {"USB PD 3.1 EPR", "USB PD 3.0/2.0"} ] >>

\* the first NumPresets presets of each catalog can be selected, and at most MaxOverrides
\* fields are overridden at a time
NumPresets == 2
MaxOverrides == 2

PresetIdx == 0..(NumPresets - 1)

\* the numbers typed into the fields
EditWatts == {WattLevels[1]}
EditAmps == {AmpLevels[1]}

\* e.target.value ? Number(e.target.value) : undefined
EditBatteryWh == {BatteryWhLevels[1], BatteryWhLevels[2]}

\* the inputs typed into: one field per card
AdapterEdits == {"maxW"} \X EditWatts
CableEdits == {"maxA"} \X EditAmps
DeviceEdits == {"batteryWh"} \X EditBatteryWh

\* the adapter badge clicked, and the standards picked in the select
ToggledStandards == {"USB PD PPS"}
ForcedChoices == {"auto", "Apple 2.4A"}

\* {}: the override record with no field
Empty == <<>>

\* { ...c, [k]: v }
Put(c, k, v) == [x \in DOMAIN c \cup {k} |-> IF x = k THEN v ELSE c[x]]

\* the spread the other way round: the preset's fields over the overrides
overlayPresetFirst(preset, custom) ==
    [k \in DOMAIN preset \cup DOMAIN custom |->
        IF k \in DOMAIN preset THEN preset[k] ELSE custom[k]]

\* { ...preset, ...custom, name: preset.name }
overlay(preset, custom) ==
    [k \in DOMAIN preset \cup DOMAIN custom |->
        IF k = "name" THEN preset.name
        ELSE IF k \in DOMAIN custom THEN custom[k] ELSE preset[k]]

\* the adapter, cable and device memos
adapterMemo(idx, custom) == overlay(ADAPTERS[idx + 1], custom)
cableMemo(idx, custom) == overlay(CABLES[idx + 1], custom)
deviceMemo(idx, custom) == overlay(DEVICES[idx + 1], custom)

\* set.has(s) ? set.delete(s) : set.add(s)
toggle(base, std) == IF std \in base THEN base \ {std} ELSE base \cup {std}

\* the number of fields overridden, and whether field k of record c may be set
Overrides ==
    Cardinality(DOMAIN adapterCustom) + Cardinality(DOMAIN cableCustom)
    + Cardinality(DOMAIN deviceCustom)

CanSet(c, k) == k \in DOMAIN c \/ Overrides < MaxOverrides

InitUi ==
    /\ app = "ui"
    /\ adapterIdx = 0 /\ cableIdx = 0 /\ deviceIdx = 0
    /\ showAdvanced = FALSE
    /\ forcedStandard = "auto"
    /\ adapterCustom = Empty /\ cableCustom = Empty /\ deviceCustom = Empty
    /\ lastHandler = "none"
    /\ adapter = adapterMemo(0, Empty)
    /\ cable = cableMemo(0, Empty)
    /\ device = deviceMemo(0, Empty)
    /\ \E n \in {negotiationMemo(adapter, cable, device, "auto")} :
           /\ negotiation = <<n>>
           /\ time20to80 = <<time20to80Memo(n, device)>>
           /\ bottlenecks = <<bottlenecksMemo(n, adapter, cable, device)>>
           /\ suggestions = <<suggestionsMemo(n, adapter, cable, device)>>
    /\ NoPower /\ NoEstimate

\* the render that follows a handler: the seven memos from the new state
Rerender ==
    /\ \E a \in {adapterMemo(adapterIdx', adapterCustom')},
          c \in {cableMemo(cableIdx', cableCustom')},
          d \in {deviceMemo(deviceIdx', deviceCustom')} :
           /\ adapter' = a /\ cable' = c /\ device' = d
           /\ Render(a, c, d, forcedStandard')
    /\ UNCHANGED <<app, estimateVars, powerW>>


\* onChange={(v) => setAdapterIdx(Number(v))}
SetAdapterIdx(i) ==
    /\ app = "ui"
    /\ i # adapterIdx
    /\ adapterIdx' = i
    /\ lastHandler' = "setAdapterIdx"
    /\ UNCHANGED <<cableIdx, deviceIdx, showAdvanced, forcedStandard,
                   adapterCustom, cableCustom, deviceCustom>>
    /\ Rerender

\* onChange={(e) => setAdapterCustom((c) => ({ ...c, maxW: Number(e.target.value) }))},
\* and the same for maxV and maxA
EditAdapter(k, v) ==
    /\ app = "ui"
    /\ CanSet(adapterCustom, k)
    /\ adapterCustom' = Put(adapterCustom, k, v)
    /\ lastHandler' = "editAdapter"
    /\ UNCHANGED <<adapterIdx, cableIdx, deviceIdx, showAdvanced, forcedStandard,
                   cableCustom, deviceCustom>>
    /\ Rerender

\* the onClick of an adapter badge
ToggleAdapterStandard(std) ==
    /\ app = "ui"
    /\ CanSet(adapterCustom, "standards")
    /\ LET base == IF "standards" \in DOMAIN adapterCustom
                   THEN adapterCustom.standards
                   ELSE ADAPTERS[adapterIdx + 1].standards
       IN  adapterCustom' = Put(adapterCustom, "standards", toggle(base, std))
    /\ lastHandler' = "toggleAdapterStandard"
    /\ UNCHANGED <<adapterIdx, cableIdx, deviceIdx, showAdvanced, forcedStandard,
                   cableCustom, deviceCustom>>
    /\ Rerender

\* onChange={(v) => setCableIdx(Number(v))}
SetCableIdx(i) ==
    /\ app = "ui"
    /\ i # cableIdx
    /\ cableIdx' = i
    /\ lastHandler' = "setCableIdx"
    /\ UNCHANGED <<adapterIdx, deviceIdx, showAdvanced, forcedStandard,
                   adapterCustom, cableCustom, deviceCustom>>
    /\ Rerender

\* setCableCustom((c) => ({ ...c, maxA: ... })), and the same for maxV and eMarked
EditCable(k, v) ==
    /\ app = "ui"
    /\ CanSet(cableCustom, k)
    /\ cableCustom' = Put(cableCustom, k, v)
    /\ lastHandler' = "editCable"
    /\ UNCHANGED <<adapterIdx, cableIdx, deviceIdx, showAdvanced, forcedStandard,
                   adapterCustom, deviceCustom>>
    /\ Rerender

\* onChange={(v) => setDeviceIdx(Number(v))}
SetDeviceIdx(i) ==
    /\ app = "ui"
    /\ i # deviceIdx
    /\ deviceIdx' = i
    /\ lastHandler' = "setDeviceIdx"
    /\ UNCHANGED <<adapterIdx, cableIdx, showAdvanced, forcedStandard,
                   adapterCustom, cableCustom, deviceCustom>>
    /\ Rerender

\* setDeviceCustom((c) => ({ ...c, recommendedW: ... })), and the same for maxW, maxV,
\* maxA, batteryMAh and batteryWh
EditDevice(k, v) ==
    /\ app = "ui"
    /\ CanSet(deviceCustom, k)
    /\ deviceCustom' = Put(deviceCustom, k, v)
    /\ lastHandler' = "editDevice"
    /\ UNCHANGED <<adapterIdx, cableIdx, deviceIdx, showAdvanced, forcedStandard,
                   adapterCustom, cableCustom>>
    /\ Rerender

\* onChange={(v) => setForcedStandard(v as any)}
SetForcedStandard(v) ==
    /\ app = "ui"
    /\ v # forcedStandard
    /\ forcedStandard' = v
    /\ lastHandler' = "setForcedStandard"
    /\ UNCHANGED <<adapterIdx, cableIdx, deviceIdx, showAdvanced,
                   adapterCustom, cableCustom, deviceCustom>>
    /\ Rerender

\* onClick={() => setShowAdvanced((v) => !v)}
ToggleShowAdvanced ==
    /\ app = "ui"
    /\ showAdvanced' = ~showAdvanced
    /\ lastHandler' = "toggleShowAdvanced"
    /\ UNCHANGED <<adapterIdx, cableIdx, deviceIdx, forcedStandard,
                   adapterCustom, cableCustom, deviceCustom>>
    /\ Rerender

\* resetAll that leaves the device's overrides in place
ResetAllButDevice ==
    /\ app = "ui"
    /\ adapterIdx' = 0 /\ cableIdx' = 0 /\ deviceIdx' = 0
    /\ forcedStandard' = "auto"
    /\ adapterCustom' = Empty /\ cableCustom' = Empty
    /\ lastHandler' = "resetAll"
    /\ UNCHANGED <<showAdvanced, deviceCustom>>
    /\ Rerender

\* const resetAll = () => { setAdapterIdx(0); ...; setDeviceCustom({}); }
ResetAll ==
    /\ app = "ui"
    /\ adapterIdx' = 0 /\ cableIdx' = 0 /\ deviceIdx' = 0
    /\ forcedStandard' = "auto"
    /\ adapterCustom' = Empty /\ cableCustom' = Empty /\ deviceCustom' = Empty
    /\ lastHandler' = "resetAll"
    /\ UNCHANGED showAdvanced
    /\ Rerender

NextUi ==
    \/ \E i \in PresetIdx : SetAdapterIdx(i) \/ SetCableIdx(i) \/ SetDeviceIdx(i)
    \/ \E e \in AdapterEdits : EditAdapter(e[1], e[2])
    \/ \E e \in CableEdits : EditCable(e[1], e[2])
    \/ \E e \in DeviceEdits : EditDevice(e[1], e[2])
    \/ \E std \in ToggledStandards : ToggleAdapterStandard(std)
    \/ \E v \in ForcedChoices : SetForcedStandard(v)
    \/ ToggleShowAdvanced
    \/ ResetAll

SpecUi == InitUi /\ [][NextUi]_vars

----------------------------------------------------------------------------
\* The two engines side by side.

InitEngines == InitEstimate \/ InitNegotiate

NextEngines == Estimate \/ Negotiate

SpecEngines == InitEngines /\ [][NextEngines]_vars

----------------------------------------------------------------------------
\* All of it.

Init == InitEstimate \/ InitNegotiate \/ InitChargeTime \/ InitUi

Next == Estimate \/ Negotiate \/ ChargeTime \/ NextUi

Spec == Init /\ [][Next]_vars

----------------------------------------------------------------------------
\* The results the claims speak of.

Estimated == app = "estimate" /\ simulation # <<>>
Negotiated == app = "negotiate" /\ negotiation # <<>>

sim == simulation[1]
neg == negotiation[1]

Range(seq) == {seq[i] : i \in DOMAIN seq}

UsbACables == {"USB-A to USB-C", "USB-A to Lightning"}

\* the standards listed by adapterState and deviceState that isStandardCompatible accepts
MutualCompatible ==
    { s \in Standard :
        /\ s \in adapterState.standards
        /\ s \in deviceState.standards
        /\ isStandardCompatible(s, adapterState, cableState, deviceState).compatible }

\* position of a standard in the order EPR > PPS > PD 3.0 > QC 3.0 > Apple 2.4A > BC 1.2
EstimateRank(s) ==
    CASE s = "USB PD 3.1 EPR" -> 1
      [] s = "USB PD 3.0 PPS" -> 2
      [] s = "USB PD 3.0" -> 3
      [] s = "QC 3.0" -> 4
      [] s = "Apple 2.4A" -> 5
      [] s = "USB BC 1.2" -> 6

\* rank of a standard in the order Extended-Range PD > PPS > base PD > quick charge >
\* Apple 2.4A > USB BC 1.2
NegotiateRank(s) ==
    CASE s = "USB PD 3.1 EPR" -> 1
      [] s = "USB PD PPS" -> 2
      [] s = "USB PD 3.0/2.0" -> 3
      [] s \in {"Quick Charge 4+", "Quick Charge 3.0"} -> 4
      [] s = "Apple 2.4A" -> 5
      [] s = "USB BC 1.2" -> 6

----------------------------------------------------------------------------
\* C1: estimateCharging, USB-A ceiling: over a cable with a USB-A end the negotiated
\* voltage (effectiveV, before rounding) is at most 5 V, for every selection.
C1_UsbACeilingEstimate ==
    Estimated /\ cableState.connector \in UsbACables => sim.effectiveV <= 5

\* a USB-A cable between parts that would all allow more than 5 V
C1_Witness ==
    /\ Estimated
    /\ cableState.connector = "USB-A to Lightning"
    /\ MinOf({adapterState.maxV, cableState.maxV, deviceState.maxV}) > 5
    /\ sim.effectiveV = 5

\* C2: computeNegotiatedPower, USB-A ceiling: over a cable with a USB-A end the returned
\* voltage is at most 5 V, for every forced standard and under Auto.
C2_UsbACeilingNegotiate ==
    Negotiated /\ cable.connector \in UsbACables => neg.voltage <= 5

\* C3: estimateCharging under Auto returns the highest-priority standard among those
\* listed by adapter and device and compatible; none of higher priority is skipped.
C3_AutoPicksHighestPriority ==
    Estimated /\ standardSelection = "Auto" /\ MutualCompatible # {} =>
        /\ sim.standard \in MutualCompatible
        /\ \A s \in MutualCompatible : EstimateRank(sim.standard) <= EstimateRank(s)

\* Auto passes over a listed but incompatible EPR and picks PPS ahead of PD 3.0 and QC 3.0
C3_Witness ==
    /\ Estimated
    /\ standardSelection = "Auto"
    /\ "USB PD 3.1 EPR" \in (adapterState.standards \cap deviceState.standards) \ MutualCompatible
    /\ {"USB PD 3.0 PPS", "USB PD 3.0", "QC 3.0"} \subseteq MutualCompatible
    /\ sim.standard = "USB PD 3.0 PPS"

\* C4: computeNegotiatedPower with no forced standard returns the highest-priority viable
\* shared standard in the order EPR > PPS > base PD > quick charge > Apple 2.4A > BC 1.2.
C4_AutoPicksHighestPriority ==
    Negotiated /\ forcedStandard = "auto" /\ viable(adapter, cable, device) # {} =>
        /\ neg.standard \in viable(adapter, cable, device)
        /\ \A s \in viable(adapter, cable, device) :
              NegotiateRank(neg.standard) <= NegotiateRank(s)

\* C5: EPR gating: estimateCharging with selection "USB PD 3.1 EPR" and a cable without the
\* epr flag returns that standard and an incompatibilities list holding eprRequiresCable.
C5_EprGating ==
    Estimated /\ standardSelection = "USB PD 3.1 EPR" /\ ~cableState.epr =>
        /\ sim.standard = "USB PD 3.1 EPR"
        /\ sim.incompatibilities # <<>>
        /\ "eprRequiresCable" \in Range(sim.incompatibilities)

\* EPR forced over a non-EPR cable that also fails the connector and listing rules
C5_Witness ==
    /\ Estimated
    /\ standardSelection = "USB PD 3.1 EPR"
    /\ ~cableState.epr
    /\ {"adapterLacksUsbC", "adapterNoStandard", "eprRequiresCable"}
           \subseteq Range(sim.incompatibilities)

\* the power estimateCharging is to compute from the limits of the three parts
MinOfLimitsW ==
    LET v == MinOf({adapterState.maxV, cableState.maxV, deviceState.maxV}
                   \cup (IF cableState.connector \in UsbACables THEN {5} ELSE {}))
        i == MinOf({adapterState.maxA, cableState.maxA, deviceState.maxA})
    IN  MinOf({adapterState.maxW, cableState.maxW, deviceState.maxV * deviceState.maxA, v * i})

C7_NoViableNegotiate ==
    Negotiated /\ forcedStandard = "auto" =>
        /\ viable(adapter, cable, device) = {} =>
              /\ neg.standard = "null"
              /\ neg.power = Num(0)
              /\ neg.current = Num(0)
              /\ neg.reason # "null"
              /\ neg.powerF64 = F64Zero
              /\ neg.currentF64 = F64Zero
              /\ neg.limits = [adapter |-> TRUE, cable |-> TRUE, device |-> TRUE]
        /\ neg.standard # "null" =>
              neg.standard \in adapter.standards /\ neg.standard \in device.standards

\* standards are shared, but the cable lets none of them through
C7_Witness ==
    /\ Negotiated
    /\ forcedStandard = "auto"
    /\ adapter.standards \cap device.standards # {}
    /\ viable(adapter, cable, device) = {}
    /\ neg.standard = "null"

C9_CurrentBound ==
    /\ Estimated =>
          /\ sim.effectiveA <= adapterState.maxA
          /\ sim.effectiveA <= cableState.maxA
          /\ sim.effectiveA <= deviceState.maxA
    /\ Negotiated /\ neg.standard # "null" =>
          /\ RLe(neg.current, Num(cable.maxA))
          /\ RLe(neg.current, IF adapter.maxA = Undefined
                              THEN Rat(adapter.maxW, neg.voltage) ELSE Num(adapter.maxA[1]))
          /\ RLe(neg.current, IF device.maxA = Undefined
                              THEN Rat(device.maxW, neg.voltage) ELSE Num(device.maxA[1]))

\* the adapter's derived limit maxW / voltage, above 5 V, is the current
C9_Witness ==
    /\ Negotiated
    /\ neg.standard # "null"
    /\ adapter.maxA = Undefined
    /\ neg.voltage > 5
    /\ neg.current = Rat(adapter.maxW, neg.voltage)
    /\ RLt(neg.current, Num(cable.maxA))

\* the lowest voltage computeNegotiatedPower negotiates for a standard
FloorVoltage(s) ==
    CASE s = "USB PD 3.1 EPR" -> 20
      [] s \in {"Quick Charge 4+", "Quick Charge 3.0"} -> 0
      [] OTHER -> 5

\* C10 as stated: the voltage computeNegotiatedPower returns for a chosen standard never
\* exceeds min(adapter.maxV, cable.maxV, device.maxV).
C10_VoltageBound ==
    Negotiated /\ neg.standard # "null" =>
        neg.voltage <= MinOf({adapter.maxV, cable.maxV, device.maxV})

\* C10 as amended: the returned voltage never exceeds the larger of
\* min(adapter.maxV, cable.maxV, device.maxV) and the chosen standard's lowest voltage
\* (20 V for USB PD 3.1 EPR, 5 V for the other PD standards, Apple 2.4A and USB BC 1.2,
\* none for quick charge).
C10_VoltageBoundOrFloor ==
    Negotiated /\ neg.standard # "null" =>
        LET m == MinOf({adapter.maxV, cable.maxV, device.maxV})
        IN  neg.voltage <= (IF m < FloorVoltage(neg.standard)
                            THEN FloorVoltage(neg.standard) ELSE m)

\* EPR is chosen while a part allows only 5 V: the voltage is raised to EPR's 20 V
C10_Witness ==
    /\ Negotiated
    /\ neg.standard = "USB PD 3.1 EPR"
    /\ MinOf({adapter.maxV, cable.maxV, device.maxV}) = 5
    /\ neg.voltage = 20

\* the values a ceiling is raised to
RaiseLevels == (1..48) \cup Range(WattLevels)

\* the numeric ceilings of the parts of the two engines
EstimateCeilings ==
    { <<"adapter", "maxW">>, <<"adapter", "maxV">>, <<"adapter", "maxA">>,
      <<"cable", "maxW">>, <<"cable", "maxV">>, <<"cable", "maxA">>,
      <<"device", "maxV">>, <<"device", "maxA">> }

NegotiateCeilings ==
    { <<"adapter", "maxW">>, <<"adapter", "maxV">>, <<"adapter", "maxA">>,
      <<"cable", "maxV">>, <<"cable", "maxA">>,
      <<"device", "maxW">>, <<"device", "maxV">>, <<"device", "maxA">> }

\* estimateCharging on the App's inputs with ceiling pf = <<part, field>> set to v
EstimateRaised(pf, v) ==
    estimateCharging(
        IF pf[1] = "adapter" THEN [adapterState EXCEPT ![pf[2]] = v] ELSE adapterState,
        IF pf[1] = "cable" THEN [cableState EXCEPT ![pf[2]] = v] ELSE cableState,
        IF pf[1] = "device" THEN [deviceState EXCEPT ![pf[2]] = v] ELSE deviceState,
        standardSelection)

\* the ceiling pf of the part p of computeNegotiatedPower; an absent maxA is no ceiling
NegCeiling(p, pf) == IF pf[2] = "maxA" /\ pf[1] # "cable" THEN p.maxA ELSE <<p[pf[2]]>>

NegWith(p, pf, v) ==
    [p EXCEPT ![pf[2]] = IF pf[2] = "maxA" /\ pf[1] # "cable" THEN <<v>> ELSE v]

\* computeNegotiatedPower on the App's inputs with ceiling pf = <<part, field>> set to v
NegotiateRaised(pf, v) ==
    computeNegotiatedPower(
        IF pf[1] = "adapter" THEN NegWith(adapter, pf, v) ELSE adapter,
        IF pf[1] = "cable" THEN NegWith(cable, pf, v) ELSE cable,
        IF pf[1] = "device" THEN NegWith(device, pf, v) ELSE device,
        IF forcedStandard = "auto" THEN "null" ELSE forcedStandard)

NegPart(pf) == IF pf[1] = "adapter" THEN adapter ELSE IF pf[1] = "cable" THEN cable ELSE device
EstPart(pf) ==
    IF pf[1] = "adapter" THEN adapterState ELSE IF pf[1] = "cable" THEN cableState ELSE deviceState

\* C11: monotonicity: raising one numeric ceiling of one part, every other input and the
\* selection held fixed, never lowers the power of estimateCharging nor the power of
\* computeNegotiatedPower.
C11_Monotonic ==
    /\ Estimated =>
          \A pf \in EstimateCeilings : \A v \in RaiseLevels :
              v > EstPart(pf)[pf[2]] => EstimateRaised(pf, v).effectiveW >= sim.effectiveW
    /\ Negotiated =>
          \A pf \in NegotiateCeilings : \A v \in RaiseLevels :
              NegCeiling(NegPart(pf), pf) # <<>> /\ v > NegCeiling(NegPart(pf), pf)[1] =>
                  F64Le(neg.powerF64, NegotiateRaised(pf, v).powerF64)

\* C12: an explicit selection is never corrected: estimateCharging returns exactly the
\* selected standard, still computes voltage, current and power from the limits, and its
\* incompatibilities are exactly the reasons of isStandardCompatible for that standard;
\* computeNegotiatedPower returns a forced standard unchanged, so never null.
C12_ExplicitSelectionKept ==
    /\ Estimated /\ standardSelection # "Auto" =>
          /\ sim.standard = standardSelection
          /\ sim.incompatibilities =
                 isStandardCompatible(standardSelection,
                                      adapterState, cableState, deviceState).reasons
          /\ sim.effectiveW = MinOfLimitsW
          /\ sim.estimatedW = Num(MinOfLimitsW)
          /\ sim.effectiveA = MinOf({adapterState.maxA, cableState.maxA, deviceState.maxA})
          /\ sim.effectiveV <= MinOf({adapterState.maxV, cableState.maxV, deviceState.maxV})
    /\ Negotiated /\ forcedStandard # "auto" =>
          neg.standard = forcedStandard /\ neg.standard # "null" /\ neg.reason = "null"

\* a selected PD standard that neither part lists, over a USB-A cable: kept, with power
C12_Witness ==
    /\ Estimated
    /\ standardSelection = "USB PD 3.0 PPS"
    /\ standardSelection \notin adapterState.standards \cup deviceState.standards
    /\ cableState.connector \in UsbACables
    /\ sim.standard = "USB PD 3.0 PPS"
    /\ {"adapterNoStandard", "deviceNoStandard", "usbACableNoPd"}
           \subseteq Range(sim.incompatibilities)
    /\ sim.effectiveW > 0

\* C13: Auto fallback: under Auto, when no standard listed by both adapter and device is
\* compatible, estimateCharging returns USB BC 1.2 with a non-empty incompatibilities
\* list; when at least one is compatible, the incompatibilities list is empty.
C13_AutoFallback ==
    Estimated /\ standardSelection = "Auto" =>
        /\ MutualCompatible = {} =>
              sim.standard = "USB BC 1.2" /\ sim.incompatibilities # <<>>
        /\ MutualCompatible # {} => sim.incompatibilities = <<>>

\* adapter and device share standards, the connectors rule all of them out: USB BC 1.2
C13_Witness ==
    /\ Estimated
    /\ standardSelection = "Auto"
    /\ Cardinality(adapterState.standards \cap deviceState.standards) >= 3
    /\ MutualCompatible = {}
    /\ sim.standard = "USB BC 1.2"
    /\ "USB BC 1.2" \notin deviceState.standards
    /\ "deviceNoStandard" \in Range(sim.incompatibilities)

\* the reasons estimateCharging reports for the standard it returns
Reasons == Range(sim.incompatibilities)

\* C14: isStandardCompatible evaluates every rule: its reasons hold one entry for each
\* violated rule (the connector entries, adapterNoStandard, deviceNoStandard,
\* usbACableNoPd, eprRequiresCable, eprRequiresVoltage) and no other, none twice, and
\* compatible is true iff reasons is empty.
C14_EveryRuleReported ==
    Estimated =>
        LET s == sim.standard
            result == isStandardCompatible(s, adapterState, cableState, deviceState)
        IN  /\ result.reasons = sim.incompatibilities
            /\ result.compatible <=> (sim.incompatibilities = <<>>)
            /\ Len(sim.incompatibilities) = Cardinality(Reasons)
            /\ \A k \in Range(getConnectorCompatibility(adapterState, cableState,
                                                         deviceState).reasons) : k \in Reasons
            /\ "adapterNoStandard" \in Reasons <=> s \notin adapterState.standards
            /\ "deviceNoStandard" \in Reasons <=> s \notin deviceState.standards
            /\ "usbACableNoPd" \in Reasons <=>
                   (cableState.connector \in UsbACables
                    /\ s \notin {"Apple 2.4A", "USB BC 1.2", "QC 3.0"})
            /\ "eprRequiresCable" \in Reasons <=> (s = "USB PD 3.1 EPR" /\ ~cableState.epr)
            /\ "eprRequiresVoltage" \in Reasons <=>
                   (s = "USB PD 3.1 EPR" /\ (adapterState.maxV < 28 \/ deviceState.maxV < 28))
            /\ Reasons \subseteq
                   { "adapterLacksUsbC", "adapterLacksUsbA", "deviceNeedsUsbC",
                     "deviceNeedsLightning", "adapterNoStandard", "deviceNoStandard",
                     "usbACableNoPd", "eprRequiresCable", "eprRequiresVoltage" }

\* one call reports a connector mismatch, both listings, the USB-A rule and both EPR rules
C14_Witness ==
    /\ Estimated
    /\ sim.standard = "USB PD 3.1 EPR"
    /\ Len(sim.incompatibilities) >= 6
    /\ { "deviceNeedsLightning", "adapterNoStandard", "deviceNoStandard", "usbACableNoPd",
         "eprRequiresCable", "eprRequiresVoltage" } \subseteq Reasons

\* the two ends of a cable: the adapter-side end is the first connector of the pair, the
\* device-side end the second
AdapterSideEnd(connector) ==
    IF connector \in {"USB-C to USB-C", "USB-C to Lightning"} THEN "USB-C" ELSE "USB-A"

DeviceSideEnd(connector) ==
    IF connector \in {"USB-C to USB-C", "USB-A to USB-C"} THEN "USB-C" ELSE "Lightning"

\* C15: adapter-side connector rule: adapterLacksUsbC is reported exactly when the cable's
\* adapter-side end is USB-C and adapter.ports lacks USB-C, adapterLacksUsbA exactly when
\* the adapter-side end is USB-A and adapter.ports lacks USB-A.
C15_AdapterSideRule ==
    Estimated =>
        /\ "adapterLacksUsbC" \in Reasons <=>
               ( AdapterSideEnd(cableState.connector) = "USB-C"
                 /\ "USB-C" \notin adapterState.ports )
        /\ "adapterLacksUsbA" \in Reasons <=>
               ( AdapterSideEnd(cableState.connector) = "USB-A"
                 /\ "USB-A" \notin adapterState.ports )

\* C16: device-side connector rule: deviceNeedsUsbC is reported exactly when
\* device.connector is USB-C and the cable's device-side end is not USB-C,
\* deviceNeedsLightning exactly when device.connector is Lightning and the device-side end
\* is not Lightning.
C16_DeviceSideRule ==
    Estimated =>
        /\ "deviceNeedsUsbC" \in Reasons <=>
               ( deviceState.connector = "USB-C"
                 /\ DeviceSideEnd(cableState.connector) # "USB-C" )
        /\ "deviceNeedsLightning" \in Reasons <=>
               ( deviceState.connector = "Lightning"
                 /\ DeviceSideEnd(cableState.connector) # "Lightning" )

\* the Power-Delivery family of each engine
PdFamily == {"USB PD 3.1 EPR", "USB PD 3.0 PPS", "USB PD 3.0"}
NegPdFamily == {"USB PD 3.1 EPR", "USB PD PPS", "USB PD 3.0/2.0"}

\* C17: USB-A restriction: over a cable with a USB-A end isStandardCompatible accepts no
\* Power-Delivery-family standard and reports usbACableNoPd exactly for the standards
\* outside {Apple 2.4A, USB BC 1.2, QC 3.0}; under Auto neither engine returns a
\* Power-Delivery-family standard over such a cable.
C17_UsbARestriction ==
    /\ Estimated /\ cableState.connector \in UsbACables =>
          /\ \A s \in Standard :
                LET result == isStandardCompatible(s, adapterState, cableState, deviceState)
                IN  /\ s \in PdFamily => ~result.compatible
                    /\ "usbACableNoPd" \in Range(result.reasons)
                           <=> s \notin {"Apple 2.4A", "USB BC 1.2", "QC 3.0"}
          /\ sim.standard \in PdFamily => "usbACableNoPd" \in Reasons
          /\ standardSelection = "Auto" => sim.standard \notin PdFamily
    /\ Negotiated /\ cable.connector \in UsbACables /\ forcedStandard = "auto" =>
          neg.standard \notin NegPdFamily

\* Auto over a USB-A cable passes over the shared PD standards and settles on QC 3.0
C17_Witness ==
    /\ Estimated
    /\ standardSelection = "Auto"
    /\ cableState.connector = "USB-A to USB-C"
    /\ PdFamily \subseteq adapterState.standards \cap deviceState.standards
    /\ sim.standard = "QC 3.0"
    /\ sim.incompatibilities = <<>>

\* C18: EPR prerequisites: isStandardCompatible accepts USB PD 3.1 EPR only if cable.epr is
\* true and adapter.maxV >= 28 and device.maxV >= 28, eprRequiresVoltage is reported iff
\* one of the two is below 28, and estimateCharging under Auto does not select EPR when one
\* of the three conditions fails.
C18_EprPrerequisites ==
    Estimated =>
        LET result == isStandardCompatible("USB PD 3.1 EPR",
                                           adapterState, cableState, deviceState)
            prerequisites == /\ cableState.epr
                             /\ adapterState.maxV >= 28
                             /\ deviceState.maxV >= 28
        IN  /\ result.compatible => prerequisites
            /\ "eprRequiresVoltage" \in Range(result.reasons) <=>
                   (adapterState.maxV < 28 \/ deviceState.maxV < 28)
            /\ "eprRequiresCable" \in Range(result.reasons) <=> ~cableState.epr
            /\ standardSelection = "Auto" /\ ~prerequisites => sim.standard # "USB PD 3.1 EPR"

\* EPR is listed by both, the cable is an EPR cable, only the device stays below 28 V:
\* Auto passes over EPR
C18_Witness ==
    /\ Estimated
    /\ standardSelection = "Auto"
    /\ "USB PD 3.1 EPR" \in adapterState.standards \cap deviceState.standards
    /\ cableState.epr
    /\ adapterState.maxV >= 28
    /\ deviceState.maxV < 28
    /\ sim.standard = "USB PD 3.0 PPS"

\* the second sanity scenario, for each engine: a 140 W / 28 V / 5 A EPR adapter, a
\* 5 A / 48 V EPR cable rated for 140 W or more, a 28 V / 5 A EPR device, EPR forced
EstimateScenario2 ==
    /\ adapterState.maxW = 140 /\ adapterState.maxV = 28 /\ adapterState.maxA = 5
    /\ "USB PD 3.1 EPR" \in adapterState.standards
    /\ cableState.maxA = 5 /\ cableState.maxV = 48 /\ cableState.epr
    /\ cableState.maxW >= 140
    /\ cableState.connector = "USB-C to USB-C"
    /\ deviceState.maxV = 28 /\ deviceState.maxA = 5
    /\ "USB PD 3.1 EPR" \in deviceState.standards
    /\ standardSelection = "USB PD 3.1 EPR"

NegotiateScenario2 ==
    /\ adapter.maxW = 140 /\ adapter.maxV = 28 /\ adapter.maxA \in {Undefined, <<5>>}
    /\ "USB PD 3.1 EPR" \in adapter.standards
    /\ cable.maxA = 5 /\ cable.maxV = 48
    /\ device.maxW = 140 /\ device.maxV = 28 /\ device.maxA \in {Undefined, <<5>>}
    /\ "USB PD 3.1 EPR" \in device.standards
    /\ forcedStandard = "USB PD 3.1 EPR"

\* C19: no spurious power loss: the power of estimateCharging is exactly
\* min(adapter.maxW, cable.maxW, device.maxV * device.maxA, effectiveV * effectiveA), with
\* effectiveV the minimum of the three maxV (and of 5 on USB-A) and effectiveA the minimum
\* of the three maxA; in the second sanity scenario both engines give a power within 2 W
\* of 140 W.
C19_ExactMinPower ==
    /\ Estimated =>
          /\ sim.effectiveV =
                 MinOf({adapterState.maxV, cableState.maxV, deviceState.maxV}
                       \cup (IF cableState.connector \in UsbACables THEN {5} ELSE {}))
          /\ sim.effectiveA = MinOf({adapterState.maxA, cableState.maxA, deviceState.maxA})
          /\ sim.effectiveW = MinOfLimitsW
          /\ sim.estimatedW = Num(MinOfLimitsW)
          /\ EstimateScenario2 =>
                 RLt(Num(138), sim.estimatedW) /\ RLt(sim.estimatedW, Num(142))
    /\ Negotiated /\ NegotiateScenario2 =>
          /\ RLt(Num(138), neg.power) /\ RLt(neg.power, Num(142))
          /\ F64Lt(F64FromInt(138), neg.powerF64) /\ F64Lt(neg.powerF64, F64FromInt(142))

\* the parts of the second sanity test with EPR forced: 28 V, 5 A, 140 W, nothing to report
C19_Witness ==
    /\ Estimated
    /\ EstimateScenario2
    /\ adapterState = apple140 /\ cableState = eprCable /\ deviceState = macbook
    /\ sim.effectiveV = 28 /\ sim.effectiveA = 5
    /\ sim.estimatedW = Num(140)
    /\ sim.incompatibilities = <<>>

----------------------------------------------------------------------------
\* The charge time the claims speak of.

TimeComputed == app = "time" /\ time20to80 # <<>>
minutes == time20to80[1]
Null == <<>>

\* a battery field is given and is not 0
Given(x) == x # Undefined /\ x[1] # Num(0)

\* batteryMAh * nominalV / 1000
MAhCapacity(d) == RDiv(RMul(d.batteryMAh[1], d.nominalV[1]), Num(1000))

\* min(powerW, device.maxW) * eff, eff = 0.75 below 25 Wh and 0.85 from 25 Wh on
PowerInto(capacity) ==
    RMul(RMin2(powerW, Num(device.maxW)),
         IF RLt(capacity, Num(25)) THEN Rat(3, 4) ELSE Rat(17, 20))

\* round(60 * 0.6 * capacity / (min(powerW, device.maxW) * eff))
RoundedMinutes(capacity) ==
    LET x == RMul(Num(60), RDiv(RMul(Rat(3, 5), capacity), PowerInto(capacity)))
    IN  (2 * x[1] + x[2]) \div (2 * x[2])

\* what the capacity resolved to gives: null below the floor, the rounded minutes above
TimeFor(capacity) ==
    IF RLe(PowerInto(capacity), Rat(1, 10)) THEN minutes = Null
    ELSE minutes = <<RoundedMinutes(capacity)>>

\* C21 (as stated): estimateChargeTimeMinutes takes device.batteryWh as the capacity when
\* it is present, else batteryMAh * nominalV / 1000 when both are present, else returns
\* null; for a device with only batteryMAh and nominalV, both positive, and a power above
\* the floor, the result is a positive whole number, round(60 * 0.6 * capacity /
\* (min(powerW, device.maxW) * eff)).
C21_CapacityResolution ==
    TimeComputed =>
        /\ IF device.batteryWh # Undefined THEN TimeFor(device.batteryWh[1])
           ELSE IF device.batteryMAh # Undefined /\ device.nominalV # Undefined
                THEN TimeFor(MAhCapacity(device))
                ELSE minutes = Null
        /\ ( /\ device.batteryWh = Undefined
             /\ Given(device.batteryMAh) /\ Given(device.nominalV)
             /\ RLt(Rat(1, 10), PowerInto(MAhCapacity(device))) )
           => minutes # Null /\ minutes[1] \in Nat /\ minutes[1] > 0

\* C21 (amended): a battery field counts as present when it is given and not 0; the
\* result for a device with only batteryMAh and nominalV, both positive, and a power above
\* the floor is a whole number of minutes that is not negative (0 when the slice takes
\* less than half a minute).
C21_CapacityResolutionNonZero ==
    TimeComputed =>
        /\ IF Given(device.batteryWh) THEN TimeFor(device.batteryWh[1])
           ELSE IF Given(device.batteryMAh) /\ Given(device.nominalV)
                THEN TimeFor(MAhCapacity(device))
                ELSE minutes = Null
        /\ ( /\ device.batteryWh = Undefined
             /\ Given(device.batteryMAh) /\ Given(device.nominalV)
             /\ RLt(Rat(1, 10), PowerInto(MAhCapacity(device))) )
           => minutes # Null /\ minutes[1] \in Nat /\ minutes[1] >= 0

\* a 100 mAh, 3.85 V battery and no batteryWh at 60 W: 0.3 minutes, returned as 0
C21_Witness ==
    /\ TimeComputed
    /\ device.batteryWh = Undefined
    /\ device.batteryMAh = <<Num(100)>> /\ device.nominalV = <<Rat(77, 20)>>
    /\ powerW = Num(60) /\ device.maxW = 60
    /\ minutes = <<0>>

\* the power estimateChargeTimeMinutes divides by, for the capacity it resolved
Divisor ==
    IF Given(device.batteryWh) THEN PowerInto(device.batteryWh[1])
    ELSE PowerInto(MAhCapacity(device))

\* C22: estimateChargeTimeMinutes returns null whenever min(powerW, device.maxW) * eff is
\* at most 0.1 and never divides by a smaller value; estimateCharging returns
\* estimatedTimeHours = 0, shown by formatTime as not available, whenever the negotiated
\* power is at or below a small positive floor, and a positive time otherwise.
C22_PowerFloor ==
    /\ TimeComputed /\ minutes # Null => RLt(Rat(1, 10), Divisor)
    /\ Estimated =>
          IF RLe(Num(sim.effectiveW), Rat(1, 10))
          THEN /\ sim.estimatedTimeHours = Num(0)
               /\ formatTime(sim.estimatedTimeHours) = Msg("notAvailable")
          ELSE /\ RLt(Num(0), sim.estimatedTimeHours)
               /\ formatTime(sim.estimatedTimeHours).key = "timeFormat"

----------------------------------------------------------------------------
\* The diagnostics the claims speak of.

blist == bottlenecks[1]
slist == suggestions[1]

Parts == {"adapter", "cable", "device"}

\* the reasons the bottleneck list gives for a part
ReasonsFor(part) == {blist[i].reason : i \in {j \in DOMAIN blist : blist[j].part = part}}

\* C23: README App, no standard: when negotiation.standard is null the bottleneck list
\* has exactly three entries, the adapter, the cable and the device, each with the
\* no-matching-standard reason, and the suggestion list has exactly one entry; no other
\* check contributes.
C23_NoStandardDiagnostics ==
    Negotiated /\ neg.standard = "null" =>
        /\ Len(blist) = 3
        /\ <<blist[1].part, blist[2].part, blist[3].part>> = <<"adapter", "cable", "device">>
        /\ \A i \in 1..3 : blist[i].reason = "no matching standard"
        /\ Len(slist) = 1

\* no standard in common, with an adapter too weak for the device and a 2 A cable, which
\* the other checks would have reported
C23_Witness ==
    /\ Negotiated
    /\ neg.standard = "null"
    /\ adapter.maxW < device.recommendedW
    /\ cable.maxA < 5
    /\ Len(blist) = 3 /\ Len(slist) = 1

\* the voltage ceiling of each part
PartMaxV(part) ==
    CASE part = "adapter" -> adapter.maxV
      [] part = "cable" -> cable.maxV
      [] part = "device" -> device.maxV

\* C25: README App, voltage bottleneck: for a non-null negotiated standard every part
\* whose maxV is equal to or below the negotiated voltage is listed with a voltage-limit
\* reason.
C25_VoltageBottleneck ==
    Negotiated /\ neg.standard # "null" =>
        \A part \in Parts :
            PartMaxV(part) <= neg.voltage => "voltage limit" \in ReasonsFor(part)

\* every maxW, maxV and maxA handed in is positive
PositiveInputs ==
    /\ adapter.maxW > 0 /\ adapter.maxV > 0
    /\ adapter.maxA # Undefined => adapter.maxA[1] > 0
    /\ cable.maxA > 0 /\ cable.maxV > 0
    /\ device.maxW > 0 /\ device.maxV > 0
    /\ device.maxA # Undefined => device.maxA[1] > 0

\* C27: README App: for a non-null negotiated standard and positive inputs at least one
\* of limits.adapter, limits.cable and limits.device is true and the bottleneck list is
\* not empty (the "no notable bottleneck" text is not shown), and each part flagged in
\* limits has at least one entry in the bottleneck list.
C27_LimitsAreListed ==
    Negotiated /\ neg.standard # "null" /\ PositiveInputs =>
        /\ neg.limits.adapter \/ neg.limits.cable \/ neg.limits.device
        /\ Len(blist) > 0
        /\ \A part \in Parts : neg.limits[part] => ReasonsFor(part) # {}

\* the adapter is flagged for its wattage alone: it could give more current than flows
C27_Witness ==
    /\ Negotiated
    /\ neg.standard # "null"
    /\ PositiveInputs
    /\ neg.limits.adapter
    /\ ~neg.limits.cable
    /\ ReasonsFor("adapter") = {"output limit"}

----------------------------------------------------------------------------
\* The messages of estimateCharging the claims speak of.

BottleneckKeys == {sim.bottlenecks[i].key : i \in DOMAIN sim.bottlenecks}
NextActionKeys == {sim.nextActions[i].key : i \in DOMAIN sim.nextActions}

\* the part a bottleneck message names
AdapterBottlenecks == {"bottleneckAdapterCaps"}
CableBottlenecks == {"bottleneckCableCaps", "bottleneckEprCable", "bottleneckUsbAPd"}
DeviceBottlenecks == {"bottleneckDeviceCurve"}

\* C24: estimateCharging, bottleneck attribution: whenever the negotiated voltage, current
\* or power is at a part's own ceiling for that quantity, bottlenecks has an entry naming
\* that part; in particular bottlenecks is not empty whenever the negotiated power is
\* below device.recommendedW.
C24_BottleneckAttribution ==
    Estimated =>
        /\ ( \/ sim.effectiveV = adapterState.maxV
             \/ sim.effectiveA = adapterState.maxA
             \/ sim.effectiveW = adapterState.maxW )
           => BottleneckKeys \cap AdapterBottlenecks # {}
        /\ ( \/ sim.effectiveV = cableState.maxV
             \/ sim.effectiveA = cableState.maxA
             \/ sim.effectiveW = cableState.maxW )
           => BottleneckKeys \cap CableBottlenecks # {}
        /\ ( \/ sim.effectiveV = deviceState.maxV
             \/ sim.effectiveA = deviceState.maxA
             \/ sim.effectiveW = deviceMaxW(deviceState) )
           => BottleneckKeys \cap DeviceBottlenecks # {}
        /\ sim.effectiveW < deviceState.recommendedW => BottleneckKeys # {}

\* C26: estimateCharging adds actionSwitchUsbC only when the chosen standard is Apple 2.4A
\* or USB BC 1.2 on a path with a USB-A end; it is not emitted for a quick-charge or
\* PD-family standard.
C26_SwitchUsbCOnlyLegacy ==
    Estimated /\ "actionSwitchUsbC" \in NextActionKeys =>
        /\ sim.standard \in {"Apple 2.4A", "USB BC 1.2"}
        /\ usesUsbA(cableState)

----------------------------------------------------------------------------
\* The preset and override state the claims speak of.

InUi == app = "ui"

\* spec is the preset with the override record laid over it, under the preset's name
LaidOver(spec, preset, custom) ==
    /\ DOMAIN spec = DOMAIN preset \cup DOMAIN custom
    /\ spec.name = preset.name
    /\ \A k \in DOMAIN custom \ {"name"} : spec[k] = custom[k]
    /\ \A k \in DOMAIN preset \ DOMAIN custom : spec[k] = preset[k]

SelectHandlers == {"setAdapterIdx", "setCableIdx", "setDeviceIdx"}
AdapterHandlers == {"editAdapter", "toggleAdapterStandard"}
CableHandlers == {"editCable"}
DeviceHandlers == {"editDevice"}

\* C28: README App, preset overlay: the effective adapter, cable and device are the
\* selected preset with the accumulated override record laid over it, under the preset's
\* own name; selecting a different preset changes only that index and leaves
\* adapterCustom, cableCustom and deviceCustom as they are; editing one part never
\* changes the other two. (The catalogs are constants: no handler writes to them.)
C28_PresetOverlay ==
    /\ [](InUi =>
            /\ LaidOver(adapter, ADAPTERS[adapterIdx + 1], adapterCustom)
            /\ LaidOver(cable, CABLES[cableIdx + 1], cableCustom)
            /\ LaidOver(device, DEVICES[deviceIdx + 1], deviceCustom))
    /\ [][ /\ lastHandler' \in SelectHandlers =>
                /\ UNCHANGED <<adapterCustom, cableCustom, deviceCustom>>
                /\ UNCHANGED <<forcedStandard, showAdvanced>>
                /\ lastHandler' # "setAdapterIdx" => UNCHANGED adapterIdx
                /\ lastHandler' # "setCableIdx" => UNCHANGED cableIdx
                /\ lastHandler' # "setDeviceIdx" => UNCHANGED deviceIdx
           /\ lastHandler' \in AdapterHandlers =>
                UNCHANGED <<cableIdx, cableCustom, cable, deviceIdx, deviceCustom, device>>
           /\ lastHandler' \in CableHandlers =>
                UNCHANGED <<adapterIdx, adapterCustom, adapter, deviceIdx, deviceCustom, device>>
           /\ lastHandler' \in DeviceHandlers =>
                UNCHANGED <<adapterIdx, adapterCustom, adapter, cableIdx, cableCustom, cable>>
         ]_vars

\* maxW typed in and a badge clicked on the first adapter, then the second adapter
\* selected: its name and voltage under the two overrides made before
C28_Witness ==
    /\ InUi
    /\ lastHandler = "setAdapterIdx"
    /\ adapterIdx = 1
    /\ DOMAIN adapterCustom = {"maxW", "standards"}
    /\ adapterCustom.standards = ADAPTERS[1].standards \cup {"USB PD PPS"}
    /\ adapter.name = ADAPTERS[2].name
    /\ adapter.maxV = ADAPTERS[2].maxV
    /\ adapter.maxW = adapterCustom.maxW /\ adapter.maxW # ADAPTERS[2].maxW
    /\ adapter.standards = adapterCustom.standards

\* the negotiation of the first render
InitialNegotiation == <<negotiationMemo(ADAPTERS[1], CABLES[1], DEVICES[1], "auto")>>

\* C29: README App, resetAll: from any reachable state one resetAll gives adapterIdx =
\* cableIdx = deviceIdx = 0, forcedStandard = "auto" and empty override records, so the
\* effective specs are the catalog entries 0 and the negotiation is the initial one;
\* showAdvanced is left as it is; a second resetAll changes nothing.
C29_ResetAll ==
    [][ lastHandler' = "resetAll" =>
          /\ adapterIdx' = 0 /\ cableIdx' = 0 /\ deviceIdx' = 0
          /\ forcedStandard' = "auto"
          /\ adapterCustom' = <<>> /\ cableCustom' = <<>> /\ deviceCustom' = <<>>
          /\ adapter' = ADAPTERS[1] /\ cable' = CABLES[1] /\ device' = DEVICES[1]
          /\ negotiation' = InitialNegotiation
          /\ showAdvanced' = showAdvanced
          /\ lastHandler = "resetAll" => UNCHANGED vars
      ]_vars

\* resetAll has run with the advanced panel open: the panel is still open, the rest is
\* as at the start
C29_Witness ==
    /\ InUi
    /\ lastHandler = "resetAll"
    /\ showAdvanced
    /\ adapterIdx = 0 /\ cableIdx = 0 /\ deviceIdx = 0
    /\ adapterCustom = <<>> /\ cableCustom = <<>> /\ deviceCustom = <<>>
    /\ negotiation = InitialNegotiation
====
